---------------------------- MODULE Spec2Model ----------------------------
(***************************************************************************)
(* Model of skill/scripts/excel_to_i18n_json.py: ExcelToI18nConverter and  *)
(* the command-line entry point main().                                    *)
(*                                                                         *)
(* Text is a sequence of one-character strings, so that strip(), upper(),  *)
(* replace(), startswith(), int() and the f-string col_<i> are computed    *)
(* the way Python computes them.  An Optional value is a sequence of       *)
(* length 0 (None) or 1.  A dict is a function whose DOMAIN is its key set.*)
(***************************************************************************)
EXTENDS Integers, Sequences, FiniteSets, TLC

VARIABLES
    file,              \* what is on disk at input_path
    opts,              \* the keyword arguments main() passes
    pc,                \* position of the run
    shared_strings,    \* line 140
    rows,              \* line 150
    headers,           \* line 162
    max_col,           \* line 161
    language_columns,  \* line 171
    key_idx,           \* line 185
    default_idx,       \* line 186
    actual_end_row,    \* line 193
    result,            \* line 192
    pos,               \* number of row elements the loop of line 195 has taken
    log,               \* the loop body's locals, one record per row element taken
    exc,               \* the exception in flight, "" when none
    exit_status,       \* <<>> while running, <<n>> after sys.exit(n)
    report,            \* what main() printed on stderr
    output,            \* the file at output_path
    col_ref,           \* argument of a get_column_index call
    col_index          \* its return value

runVars == <<file, opts, pc, shared_strings, rows, headers, max_col,
             language_columns, key_idx, default_idx, actual_end_row, result,
             pos, log, exc, exit_status, report, output>>
colVars == <<col_ref, col_index>>
vars == <<runVars, colVars>>

----------------------------------------------------------------------------
(* Bounds of the model *)

\* longest column reference drawn for get_column_index
MaxColLen == 2
\* largest number of data rows in a drawn sheet
MaxDataRows == 2

----------------------------------------------------------------------------
(* Python text primitives *)

None == <<>>
Some(x) == <<x>>

UpperLetters == <<"A","B","C","D","E","F","G","H","I","J","K","L","M",
                  "N","O","P","Q","R","S","T","U","V","W","X","Y","Z">>
LowerLetters == <<"a","b","c","d","e","f","g","h","i","j","k","l","m",
                  "n","o","p","q","r","s","t","u","v","w","x","y","z">>
Digits == <<"0","1","2","3","4","5","6","7","8","9">>

Range(s) == {s[i] : i \in DOMAIN s}
IndexIn(s, c) == CHOOSE i \in DOMAIN s : s[i] = c

\* str.isalpha() of one character
IsAlpha(c) == c \in Range(UpperLetters) \cup Range(LowerLetters)
\* str.isspace() of one character
IsSpace(c) == c \in {" ", "\t", "\n"}
IsDigit(c) == c \in Range(Digits)

\* str.upper() of one character, and of a text
UpperChar(c) ==
    IF c \in Range(LowerLetters) THEN UpperLetters[IndexIn(LowerLetters, c)] ELSE c
Upper(s) == [i \in DOMAIN s |-> UpperChar(s[i])]

\* ord() of an ASCII letter
Ord(c) ==
    IF c \in Range(UpperLetters) THEN 64 + IndexIn(UpperLetters, c)
    ELSE 96 + IndexIn(LowerLetters, c)

RECURSIVE LStrip(_)
LStrip(s) == IF s # <<>> /\ IsSpace(Head(s)) THEN LStrip(Tail(s)) ELSE s

RECURSIVE RStrip(_)
RStrip(s) ==
    IF s # <<>> /\ IsSpace(s[Len(s)]) THEN RStrip(SubSeq(s, 1, Len(s) - 1)) ELSE s

\* str.strip()
Strip(s) == RStrip(LStrip(s))

\* str.startswith(p)
StartsWith(s, p) == Len(s) >= Len(p) /\ SubSeq(s, 1, Len(p)) = p

\* str.replace(old, new), old non-empty: leftmost non-overlapping occurrences
RECURSIVE Replace(_, _, _)
Replace(s, old, new) ==
    IF s = <<>> THEN <<>>
    ELSE IF StartsWith(s, old)
         THEN new \o Replace(SubSeq(s, Len(old) + 1, Len(s)), old, new)
         ELSE <<Head(s)>> \o Replace(Tail(s), old, new)

\* ''.join(parts)
RECURSIVE Join(_)
Join(parts) == IF parts = <<>> THEN <<>> ELSE Head(parts) \o Join(Tail(parts))

\* str(i) of a natural number, as the f-string of line 165 formats it
RECURSIVE IntToStr(_)
IntToStr(n) ==
    IF n < 10 THEN <<Digits[n + 1]>>
    ELSE IntToStr(n \div 10) \o <<Digits[(n % 10) + 1]>>

RECURSIVE DigitsValue(_)
DigitsValue(s) ==
    IF s = <<>> THEN 0
    ELSE 10 * DigitsValue(SubSeq(s, 1, Len(s) - 1)) + (IndexIn(Digits, s[Len(s)]) - 1)

\* int() of the digits left once whitespace and sign are taken off
PyIntDigits(body, negative) ==
    IF body = <<>> \/ \E i \in DOMAIN body : ~IsDigit(body[i])
    THEN [exc |-> "ValueError", val |-> 0]
    ELSE [exc |-> "", val |-> IF negative THEN 0 - DigitsValue(body) ELSE DigitsValue(body)]

PyIntSigned(t) ==
    IF t # <<>> /\ Head(t) \in {"-", "+"} THEN PyIntDigits(Tail(t), Head(t) = "-")
    ELSE PyIntDigits(t, FALSE)

\* int(text): surrounding whitespace and one sign are accepted, anything else
\* raises ValueError.
PyInt(text) == PyIntSigned(Strip(text))

\* seq[i] of a Python list: negative i counts from the end, an i outside
\* -len .. len-1 raises IndexError.
PyListGet(seq, i) ==
    IF 0 <= i /\ i < Len(seq) THEN [exc |-> "", val |-> seq[i + 1]]
    ELSE IF i < 0 /\ 0 - Len(seq) <= i THEN [exc |-> "", val |-> seq[Len(seq) + i + 1]]
    ELSE [exc |-> "IndexError", val |-> <<>>]

\* dict[k] = v
Put(d, k, v) == [x \in (DOMAIN d) \cup {k} |-> IF x = k THEN v ELSE d[x]]
\* dict.get(k, '')
Get(d, k) == IF k \in DOMAIN d THEN d[k] ELSE <<>>
EmptyDict == <<>>

----------------------------------------------------------------------------
(* get_column_index, lines 22-28 *)

\* a plain positional base-26 digit (A as digit 0) in place of line 27
ColumnStepPositional(index, char) == index * 26 + (Ord(char) - Ord("A"))

\* the loop body of line 27
ColumnStep(index, char) == index * 26 + (Ord(char) - Ord("A") + 1)

RECURSIVE ColumnFold(_, _)
ColumnFold(index, chars) ==
    IF chars = <<>> THEN index
    ELSE ColumnFold(ColumnStep(index, Head(chars)), Tail(chars))

get_column_index(ref) == ColumnFold(0, Upper(ref)) - 1


----------------------------------------------------------------------------
(* parse_row, lines 81-102.  A dict result that may be an exception instead *)
(* is [exc: class name or "", cells: the mapping so far].                   *)

\* line 86: the letters of a cell reference
RECURSIVE AlphaOnly(_)
AlphaOnly(s) ==
    IF s = <<>> THEN <<>>
    ELSE IF IsAlpha(Head(s)) THEN <<Head(s)>> \o AlphaOnly(Tail(s))
    ELSE AlphaOnly(Tail(s))

\* line 97
SharedIndexInRange(idx, strings) == idx < Len(strings)

\* line 98, given what shared_strings[idx] evaluated to
StoreShared(cells_dict, col_idx, got) ==
    IF got.exc # "" THEN [exc |-> got.exc, cells |-> cells_dict]
    ELSE [exc |-> "", cells |-> Put(cells_dict, col_idx, got.val)]

\* lines 96-98, given what int(v.text) evaluated to
SharedCell(cells_dict, col_idx, idx, strings) ==
    IF idx.exc # "" THEN [exc |-> idx.exc, cells |-> cells_dict]
    ELSE IF SharedIndexInRange(idx.val, strings)
         THEN StoreShared(cells_dict, col_idx, PyListGet(strings, idx.val))
         ELSE [exc |-> "", cells |-> cells_dict]

\* lines 89-100 for one cell at column col_idx.  A cell is [r: reference,
\* t: Optional type flag, v: Optional text of its value node].
CellAt(cells_dict, cell, strings, maxc, col_idx) ==
    IF col_idx > maxc THEN [exc |-> "", cells |-> cells_dict]
    ELSE IF cell.v = None \/ cell.v[1] = <<>> THEN [exc |-> "", cells |-> cells_dict]
    ELSE IF cell.t = Some("s")
         THEN SharedCell(cells_dict, col_idx, PyInt(cell.v[1]), strings)
         ELSE [exc |-> "", cells |-> Put(cells_dict, col_idx, cell.v[1])]

\* lines 85-100 for one cell
ParseCell(cells_dict, cell, strings, maxc) ==
    CellAt(cells_dict, cell, strings, maxc, get_column_index(AlphaOnly(cell.r)))

RECURSIVE ParseCells(_, _, _, _)

\* the loop of line 84 goes on unless the cell raised
AfterCell(one, rest, strings, maxc) ==
    IF one.exc # "" THEN one ELSE ParseCells(one.cells, rest, strings, maxc)

ParseCells(cells_dict, cells, strings, maxc) ==
    IF cells = <<>> THEN [exc |-> "", cells |-> cells_dict]
    ELSE AfterCell(ParseCell(cells_dict, Head(cells), strings, maxc), Tail(cells),
                   strings, maxc)

\* a row element is [r: text of its row number, cells: sequence of cells]
parse_row(row_elem, strings, maxc) == ParseCells(EmptyDict, row_elem.cells, strings, maxc)

----------------------------------------------------------------------------
(* load_shared_strings, lines 30-45.  A part of the archive is               *)
(* [kind: "absent" | "malformed" | "ok", val: its parsed content].           *)

\* the shared-string part holds a sequence of string items, each a sequence of
\* text runs
load_shared_strings(parts) ==
    IF parts.sst.kind = "absent" THEN [exc |-> "", val |-> <<>>]
    ELSE IF parts.sst.kind = "malformed" THEN [exc |-> "ParseError", val |-> <<>>]
    ELSE [exc |-> "",
          val |-> [i \in DOMAIN parts.sst.val |-> Join(parts.sst.val[i])]]

----------------------------------------------------------------------------
(* find_sheet_path, lines 47-79 *)

NoSheet(e) == [exc |-> e, path |-> "", name |-> ""]

\* lines 74-77: the target of the first relationship with the given id
RECURSIVE FindRel(_, _)
FindRel(rels, rid) ==
    IF rels = <<>> THEN None
    ELSE IF Head(rels).Id = rid THEN Some(Head(rels).Target)
    ELSE FindRel(Tail(rels), rid)

\* line 61: a name was asked for ('' is as false as None)
Named(sheet_name) == sheet_name # None /\ sheet_name[1] # ""

\* lines 65 and 68
TargetName(reg, sheet_name) == IF Named(sheet_name) THEN sheet_name[1] ELSE reg[1].name

\* lines 66 and 69: the dict of line 56 keeps the last id registered under a name
TargetRid(reg, target_name) ==
    reg[CHOOSE i \in DOMAIN reg :
            /\ reg[i].name = target_name
            /\ \A j \in DOMAIN reg : reg[j].name = target_name => j <= i].rid

\* lines 76-79
RelResult(hit, target_name) ==
    IF hit = None THEN NoSheet("ValueError")
    ELSE [exc |-> "", path |-> hit[1], name |-> target_name]

\* lines 71-79
ResolveSheet(parts, target_name) ==
    IF parts.rels.kind = "absent" THEN NoSheet("KeyError")
    ELSE IF parts.rels.kind = "malformed" THEN NoSheet("ParseError")
    ELSE RelResult(FindRel(parts.rels.val, TargetRid(parts.workbook.val, target_name)),
                   target_name)

\* the workbook part holds the sequence of [name, rid] of its sheet elements
find_sheet_path(parts, sheet_name) ==
    IF parts.workbook.kind = "absent" THEN NoSheet("KeyError")
    ELSE IF parts.workbook.kind = "malformed" THEN NoSheet("ParseError")
    ELSE IF parts.workbook.val = <<>> THEN NoSheet("ValueError")
    ELSE IF Named(sheet_name)
            /\ \A i \in DOMAIN parts.workbook.val :
                   parts.workbook.val[i].name # sheet_name[1]
         THEN NoSheet("ValueError")
    ELSE ResolveSheet(parts, TargetName(parts.workbook.val, sheet_name))

----------------------------------------------------------------------------
(* header list and column roles, lines 160-189 *)

\* line 161
MaxHeaderCol(header_cells) ==
    IF DOMAIN header_cells # {}
    THEN CHOOSE m \in DOMAIN header_cells : \A x \in DOMAIN header_cells : x <= m
    ELSE 0

ColPrefix == <<"c", "o", "l", "_">>

\* line 165
HeaderName(header, i) == IF header # <<>> THEN header ELSE ColPrefix \o IntToStr(i)

\* lines 162-165; position i+1 of the sequence is column index i
BuildHeaders(header_cells) ==
    [n \in 1 .. (MaxHeaderCol(header_cells) + 1) |->
        HeaderName(Strip(Get(header_cells, n - 1)), n - 1)]

\* line 136: the exclusion set when the caller gives none
DefaultExclude ==
    { <<"U+7279", "U+6B8A", "U+8BF4", "U+660E">>,
      <<"i","s","_","a","n","d","r","o","i","d">>,
      <<"l","o","c","a","t","i","o","n">> }

\* line 170
MetaColumns(o) == {o.key_column, o.default_column} \cup DefaultExclude

\* line 177
Abbreviate(header) == Replace(Replace(header, <<"_","r">>, <<"-">>), <<"_">>, <<"-">>)

\* line 173
IsLanguageHeader(header, o) ==
    header # <<>> /\ header \notin MetaColumns(o) /\ ~StartsWith(header, ColPrefix)

\* lines 171-178: column index -> language tag
LanguageColumns(hdrs, o) ==
    [idx \in {n - 1 : n \in {m \in DOMAIN hdrs : IsLanguageHeader(hdrs[m], o)}} |->
        IF o.use_abbrev THEN Abbreviate(hdrs[idx + 1]) ELSE hdrs[idx + 1]]

\* headers.index(name) if name in headers else None, lines 185-186
HeaderIndex(hdrs, name) ==
    IF \E n \in DOMAIN hdrs : hdrs[n] = name
    THEN Some((CHOOSE n \in DOMAIN hdrs :
                  hdrs[n] = name /\ \A m \in DOMAIN hdrs : hdrs[m] = name => n <= m) - 1)
    ELSE None

----------------------------------------------------------------------------
(* the row loop of convert_to_i18n_json, lines 193-223 *)

\* line 158: the column bound of the header scan
HeaderScanWidth == 100

\* line 193; a Python 0 is as false as None
ActualEndRow(end_row, rws) ==
    IF end_row # None /\ end_row[1] # 0 THEN end_row[1] ELSE Len(rws)

\* line 198
InRowRange(row_num, start_row, end_row) == start_row <= row_num /\ row_num <= end_row

\* a loop that drops no row
KeepRowAlways(default_value) == TRUE

\* lines 206-207: the row goes on unless its default text is empty
KeepRow(default_value) == default_value # <<>>

\* line 210
TextId(key_value, default_value) == IF key_value # <<>> THEN key_value ELSE default_value

\* a loop that forgets the default-language entry
AddDefaultNothing(res, lang, text_id, default_value) == res

\* lines 213-215
AddDefault(res, lang, text_id, default_value) ==
    Put(res, lang, Put(Get(res, lang), text_id, default_value))

\* a loop that stores every language cell, empty or not
KeepTextAlways(text_value) == TRUE

\* line 220
KeepText(text_value) == text_value # <<>>

\* lines 220-223
AddLanguage(res, lang_code, text_id, text_value) ==
    IF KeepText(text_value)
    THEN Put(res, lang_code, Put(Get(res, lang_code), text_id, text_value))
    ELSE res

RECURSIVE SortedSeq(_)
SortedSeq(S) ==
    IF S = {} THEN <<>>
    ELSE <<CHOOSE x \in S : \A y \in S : x <= y>>
         \o SortedSeq(S \ {CHOOSE x \in S : \A y \in S : x <= y})

\* lines 218-223 over the language columns still to visit (a dict is visited in
\* insertion order, which line 172 makes the order of the column index)
RECURSIVE AddLanguages(_, _, _, _, _)
AddLanguages(res, todo, cells_dict, lang_cols, text_id) ==
    IF todo = <<>> THEN res
    ELSE AddLanguages(
             AddLanguage(res, lang_cols[Head(todo)], text_id,
                         Strip(Get(cells_dict, Head(todo)))),
             Tail(todo), cells_dict, lang_cols, text_id)

\* the locals of one pass of the loop, with the exception that ended it; what
\* a pass did not reach is left empty
Locals(row_num, in_range, cells, key_value, default_value, text_id, kept, raised) ==
    [row_num |-> row_num, in_range |-> in_range, cells |-> cells,
     key_value |-> key_value, default_value |-> default_value, text_id |-> text_id,
     kept |-> kept, raised |-> raised]

\* lines 212-223: the exception raised (none), the locals and the result
\* mapping after a row that was not skipped
RowKept(row_num, cells, key_value, default_value, text_id, res, st) ==
    [exc |-> "",
     loc |-> Locals(row_num, TRUE, cells, key_value, default_value, text_id, TRUE, ""),
     res |-> AddLanguages(AddDefault(res, st.opts.default_lang, text_id, default_value),
                          SortedSeq(DOMAIN st.language_columns), cells,
                          st.language_columns, text_id)]

\* lines 205-223
RowValues(row_num, cells, key_value, default_value, res, st) ==
    IF ~KeepRow(default_value)
    THEN [exc |-> "",
          loc |-> Locals(row_num, TRUE, cells, key_value, default_value, <<>>, FALSE, ""),
          res |-> res]
    ELSE RowKept(row_num, cells, key_value, default_value,
                 TextId(key_value, default_value), res, st)

\* lines 201-223, given what parse_row returned or raised
RowParsed(row_num, parsed, res, st) ==
    IF parsed.exc # ""
    THEN [exc |-> parsed.exc,
          loc |-> Locals(row_num, TRUE, parsed.cells, <<>>, <<>>, <<>>, FALSE, parsed.exc),
          res |-> res]
    ELSE RowValues(row_num, parsed.cells,
                   IF st.key_idx # None THEN Strip(Get(parsed.cells, st.key_idx[1]))
                   ELSE <<>>,
                   Strip(Get(parsed.cells, st.default_idx[1])), res, st)

\* lines 198-223, given what int(row_elem.get('r')) evaluated to
RowNumbered(num, row_elem, res, st) ==
    IF num.exc # ""
    THEN [exc |-> num.exc,
          loc |-> Locals(0, FALSE, EmptyDict, <<>>, <<>>, <<>>, FALSE, num.exc),
          res |-> res]
    ELSE IF ~InRowRange(num.val, st.opts.start_row, st.actual_end_row)
    THEN [exc |-> "",
          loc |-> Locals(num.val, FALSE, EmptyDict, <<>>, <<>>, <<>>, FALSE, ""),
          res |-> res]
    ELSE RowParsed(num.val, parse_row(row_elem, st.shared_strings, st.max_col), res, st)

\* lines 196-223 for one row element; st holds what the loop reads
RowBody(row_elem, res, st) == RowNumbered(PyInt(row_elem.r), row_elem, res, st)

----------------------------------------------------------------------------
(* main(), lines 297-319 *)

\* a handler that takes every exception for an expected one
IsReportedEvery(e) == TRUE

\* line 312: the exception classes reported in one line.  BadZipFile derives
\* from Exception, KeyError and IndexError from LookupError, ParseError from
\* SyntaxError: none is a FileNotFoundError or a ValueError.
IsReported(e) == e \in {"FileNotFoundError", "ValueError"}

\* a run that writes whatever it has when an exception is in flight
WriteReachedAnyway(p, n, rws) == p \in {"loop", "raised"}

\* line 230 is reached when the loop of line 195 has taken every row element
WriteReached(p, n, rws) == p = "loop" /\ n = Len(rws)

----------------------------------------------------------------------------
(* The run: main() calling convert_to_i18n_json *)

Raise(e) == pc' = "raised" /\ exc' = e

\* line 148: the sheet part read, absent when the path names no part
SheetPart(parts, found) ==
    IF found.exc = "" /\ found.path \in DOMAIN parts.sheets
    THEN parts.sheets[found.path]
    ELSE [kind |-> "absent", val |-> <<>>]

\* lines 132-154 in the order the code runs them: the first failure decides
OpenChecked(f, sst, found, sheet) ==
    [exc |-> IF ~f.exists THEN "FileNotFoundError"
             ELSE IF ~f.is_zip THEN "BadZipFile"
             ELSE IF sst.exc # "" THEN sst.exc
             ELSE IF found.exc # "" THEN found.exc
             ELSE IF sheet.kind = "absent" THEN "KeyError"
             ELSE IF sheet.kind = "malformed" THEN "ParseError"
             ELSE IF sheet.val = <<>> THEN "ValueError"
             ELSE "",
     strings |-> sst.val,
     rows |-> sheet.val]

OpenResult(f, sst, found) == OpenChecked(f, sst, found, SheetPart(f.parts, found))

Opened(r) ==
    IF r.exc # ""
    THEN /\ Raise(r.exc)
         /\ UNCHANGED <<shared_strings, rows>>
    ELSE /\ pc' = "header"
         /\ shared_strings' = r.strings
         /\ rows' = r.rows
         /\ exc' = exc

\* lines 132-154
OpenWorkbook ==
    /\ pc = "start"
    /\ Opened(OpenResult(file, load_shared_strings(file.parts),
                         find_sheet_path(file.parts, opts.sheet_name)))
    /\ UNCHANGED <<file, opts, headers, max_col, language_columns, key_idx, default_idx,
                   actual_end_row, result, pos, log, exit_status, report, output>>
    /\ UNCHANGED colVars

\* lines 160-193, given the header cells
HeaderRoles(cells, hdrs, o, rws) ==
    [built |-> TRUE,
     exc |-> IF HeaderIndex(hdrs, o.default_column) = None THEN "ValueError" ELSE "",
     headers |-> hdrs,
     max_col |-> MaxHeaderCol(cells),
     language_columns |-> LanguageColumns(hdrs, o),
     key_idx |-> HeaderIndex(hdrs, o.key_column),
     default_idx |-> HeaderIndex(hdrs, o.default_column),
     actual_end_row |-> ActualEndRow(o.end_row, rws)]

\* lines 158-193, given what parse_row returned or raised for the first row
HeaderResult(header_cells, o, rws) ==
    IF header_cells.exc # ""
    THEN [built |-> FALSE, exc |-> header_cells.exc, headers |-> <<>>, max_col |-> 0,
          language_columns |-> EmptyDict, key_idx |-> None, default_idx |-> None,
          actual_end_row |-> 0]
    ELSE HeaderRoles(header_cells.cells, BuildHeaders(header_cells.cells), o, rws)

HeaderTaken(r) ==
    /\ IF r.built
       THEN /\ headers' = r.headers
            /\ max_col' = r.max_col
            /\ language_columns' = r.language_columns
            /\ key_idx' = r.key_idx
            /\ default_idx' = r.default_idx
       ELSE UNCHANGED <<headers, max_col, language_columns, key_idx, default_idx>>
    /\ IF r.exc # ""
       THEN /\ Raise(r.exc)
            /\ UNCHANGED actual_end_row
       ELSE /\ pc' = "loop"
            /\ exc' = exc
            /\ actual_end_row' = r.actual_end_row

\* lines 156-193
ParseHeader ==
    /\ pc = "header"
    /\ HeaderTaken(HeaderResult(parse_row(rows[1], shared_strings, HeaderScanWidth),
                                opts, rows))
    /\ UNCHANGED <<file, opts, shared_strings, rows, result, pos, log, exit_status,
                   report, output>>
    /\ UNCHANGED colVars

\* what the loop body reads
LoopState ==
    [opts |-> opts, shared_strings |-> shared_strings, max_col |-> max_col,
     key_idx |-> key_idx, default_idx |-> default_idx,
     language_columns |-> language_columns, actual_end_row |-> actual_end_row]

RowTaken(body) ==
    /\ pos' = pos + 1
    /\ log' = Append(log, body.loc)
    /\ result' = body.res
    /\ IF body.exc # "" THEN Raise(body.exc) ELSE UNCHANGED <<pc, exc>>

\* one pass of the loop of line 195
ProcessRow ==
    /\ pc = "loop"
    /\ pos < Len(rows)
    /\ RowTaken(RowBody(rows[pos + 1], result, LoopState))
    /\ UNCHANGED <<file, opts, shared_strings, rows, headers, max_col, language_columns,
                   key_idx, default_idx, actual_end_row, exit_status, report, output>>
    /\ UNCHANGED colVars

\* lines 225-231: open(output_path, 'w') fails with FileNotFoundError when the
\* directory of output_path does not exist
WriteJson ==
    /\ WriteReached(pc, pos, rows)
    /\ IF file.out_dir_exists
       THEN /\ output' = Some(result)
            /\ pc' = "written"
            /\ exc' = exc
       ELSE /\ Raise("FileNotFoundError")
            /\ UNCHANGED output
    /\ UNCHANGED <<file, opts, shared_strings, rows, headers, max_col, language_columns,
                   key_idx, default_idx, actual_end_row, result, pos, log, exit_status,
                   report>>
    /\ UNCHANGED colVars

\* line 310
MainExit ==
    /\ pc = "written"
    /\ pc' = "exited"
    /\ exit_status' = Some(0)
    /\ UNCHANGED <<file, opts, shared_strings, rows, headers, max_col, language_columns,
                   key_idx, default_idx, actual_end_row, result, pos, log, exc, report,
                   output>>
    /\ UNCHANGED colVars

\* lines 312-314
MainExceptReported ==
    /\ pc = "raised"
    /\ IsReported(exc)
    /\ pc' = "exited"
    /\ report' = "line"
    /\ exit_status' = Some(1)
    /\ UNCHANGED <<file, opts, shared_strings, rows, headers, max_col, language_columns,
                   key_idx, default_idx, actual_end_row, result, pos, log, exc, output>>
    /\ UNCHANGED colVars

\* lines 315-319
MainExceptUnexpected ==
    /\ pc = "raised"
    /\ ~IsReported(exc)
    /\ pc' = "exited"
    /\ report' = "traceback"
    /\ exit_status' = Some(1)
    /\ UNCHANGED <<file, opts, shared_strings, rows, headers, max_col, language_columns,
                   key_idx, default_idx, actual_end_row, result, pos, log, exc, output>>
    /\ UNCHANGED colVars

Next ==
    \/ OpenWorkbook
    \/ ParseHeader
    \/ ProcessRow
    \/ WriteJson
    \/ MainExit
    \/ MainExceptReported
    \/ MainExceptUnexpected

----------------------------------------------------------------------------
(* Inputs: workbooks on disk and command lines *)

T_key == <<"k","e","y">>
T_default == <<"d","e","f","a","u","l","t">>
T_zh == <<"z","h","_","r","C","N">>
T_en == <<"e","n">>
T_fr == <<" ","f","r"," ">>
T_colx == <<"c","o","l","_","x">>
T_location == <<"l","o","c","a","t","i","o","n">>
T_space == <<" ">>
T_hi == <<"H","i"," ">>
T_k == <<"k"," ">>
T_x == <<" ","x">>

\* the string items of the shared-string part, each a sequence of text runs
SharedItems ==
    << <<T_key>>, <<T_default>>, << <<"z","h">>, <<"_","r","C","N">> >>, <<T_en>>,
       <<T_fr>>, <<T_colx>>, <<T_location>>, <<T_space>>, <<T_hi>>, <<T_k>>, <<T_x>> >>

\* the zero-based position of a text in the shared-string part
SharedIndexOf(text) == (CHOOSE i \in DOMAIN SharedItems : Join(SharedItems[i]) = text) - 1

Columns == <<"A", "B", "C">>

\* a value-less cell element, as a styled but empty cell is stored
EmptyCell(col, n) == [r |-> <<col>> \o IntToStr(n), t |-> None, v |-> None]

\* the cell elements a row holds for one column: one shared-string cell, or for
\* a column without text a value-less cell (odd rows) or no cell at all
MkCell(col, n, choice) ==
    IF choice = None THEN (IF n % 2 = 1 THEN <<EmptyCell(col, n)>> ELSE <<>>)
    ELSE << [r |-> <<col>> \o IntToStr(n), t |-> Some("s"),
             v |-> Some(IntToStr(SharedIndexOf(choice[1])))] >>

RECURSIVE MkCells(_, _, _)
MkCells(n, choices, from) ==
    IF from > Len(choices) THEN <<>>
    ELSE MkCell(Columns[from], n, choices[from]) \o MkCells(n, choices, from + 1)

MkRow(n, choices) == [r |-> IntToStr(n), cells |-> MkCells(n, choices, 1)]

\* the part of an archive
Ok(v) == [kind |-> "ok", val |-> v]
Absent == [kind |-> "absent", val |-> <<>>]
Malformed == [kind |-> "malformed", val |-> <<>>]

SheetTarget == "worksheets/sheet1.xml"

\* a well-formed workbook with one sheet holding the given row elements
WorkbookWith(items, sheet_rows) ==
    [exists |-> TRUE, is_zip |-> TRUE, out_dir_exists |-> TRUE,
     parts |-> [sst |-> Ok(items),
                workbook |-> Ok(<< [name |-> "Sheet1", rid |-> "rId1"] >>),
                rels |-> Ok(<< [Id |-> "rId9", Target |-> "styles.xml"],
                               [Id |-> "rId1", Target |-> SheetTarget] >>),
                sheets |-> [p \in {SheetTarget} |-> Ok(sheet_rows)]]]

Workbook(sheet_rows) == WorkbookWith(SharedItems, sheet_rows)

\* the command line without options, lines 280-293
DefaultOpts ==
    [sheet_name |-> None, start_row |-> 2, end_row |-> None, key_column |-> T_key,
     default_column |-> T_default, default_lang |-> T_en, use_abbrev |-> TRUE]

\* nothing has run yet
Begin(f, o, p, ref) ==
    /\ file = f
    /\ opts = o
    /\ pc = p
    /\ shared_strings = <<>>
    /\ rows = <<>>
    /\ headers = <<>>
    /\ max_col = 0
    /\ language_columns = EmptyDict
    /\ key_idx = None
    /\ default_idx = None
    /\ actual_end_row = 0
    /\ result = EmptyDict
    /\ pos = 0
    /\ log = <<>>
    /\ exc = ""
    /\ exit_status = None
    /\ report = ""
    /\ output = None
    /\ col_ref = ref
    /\ col_index = 0

\* the state main() starts in
Started(f, o) == Begin(f, o, "start", <<>>)

\* --- sheets for the row loop ---

KeyChoices == {None, Some(T_k)}
DefaultChoices == {None, Some(T_space), Some(T_hi)}
LangChoices == {Some(T_space), Some(T_x)}
RowChoices == {<<k, d, l>> : k \in KeyChoices, d \in DefaultChoices, l \in LangChoices}

\* the row numbers data rows may carry: a sheet leaves blank rows out
DataRowNums == 2 .. (MaxDataRows + 2)
RowNumSets == {S \in SUBSET DataRowNums : Cardinality(S) <= MaxDataRows}

HeaderZh == MkRow(1, <<Some(T_key), Some(T_default), Some(T_zh)>>)
HeaderEn == MkRow(1, <<Some(T_key), Some(T_default), Some(T_en)>>)
HeaderNoKey == MkRow(1, <<Some(T_default), Some(T_fr)>>)
HeaderNoDefault == MkRow(1, <<Some(T_key), None, Some(T_zh)>>)

DataRows(nums, choice) ==
    [i \in 1 .. Cardinality(nums) |-> MkRow(SortedSeq(nums)[i], choice[SortedSeq(nums)[i]])]

\* --- damaged workbooks ---

GoodSheet == <<HeaderZh, MkRow(2, <<Some(T_k), Some(T_hi), Some(T_x)>>)>>

\* a workbook and the ways it can be damaged, one at a time
Damage(good) ==
    { good,
      [good EXCEPT !.exists = FALSE],
      [good EXCEPT !.is_zip = FALSE],
      [good EXCEPT !.out_dir_exists = FALSE],
      [good EXCEPT !.parts.sst = Absent],
      [good EXCEPT !.parts.sst = Malformed],
      [good EXCEPT !.parts.workbook = Absent],
      [good EXCEPT !.parts.workbook = Malformed],
      [good EXCEPT !.parts.workbook = Ok(<<>>)],
      [good EXCEPT !.parts.rels = Absent],
      [good EXCEPT !.parts.rels = Malformed],
      [good EXCEPT !.parts.rels = Ok(<< [Id |-> "rId9", Target |-> "styles.xml"] >>)],
      [good EXCEPT !.parts.sheets =
           [p \in {"worksheets/other.xml"} |-> good.parts.sheets[SheetTarget]]],
      [good EXCEPT !.parts.sheets = [p \in {SheetTarget} |-> Malformed]],
      [good EXCEPT !.parts.sheets = [p \in {SheetTarget} |-> Ok(<<>>)]] }

Damaged == Damage(Workbook(GoodSheet))

SheetNames == {None, Some("Sheet1"), Some("Summary")}

InitDamaged ==
    \E f \in Damaged, name \in SheetNames :
        Started(f, [DefaultOpts EXCEPT !.sheet_name = name])

InitRows ==
    \E nums \in RowNumSets, start \in {2, 3}, end \in {None, Some(3)} :
        \E choice \in [nums -> RowChoices] :
            Started(Workbook(<<HeaderZh>> \o DataRows(nums, choice)),
                    [DefaultOpts EXCEPT !.start_row = start, !.end_row = end])

InitLayouts ==
    \E header \in {HeaderEn, HeaderNoKey, HeaderNoDefault}, n \in DataRowNums,
       choice \in RowChoices, start \in {1, 2} :
        Started(Workbook(<<header, MkRow(n, choice)>>),
                [DefaultOpts EXCEPT !.start_row = start])

\* --- header rows ---

HeaderChoices ==
    {None, Some(T_space), Some(T_key), Some(T_default), Some(T_zh), Some(T_fr),
     Some(T_colx), Some(T_location)}

InitHeaders ==
    \E a \in HeaderChoices, b \in HeaderChoices, c \in HeaderChoices,
       abbrev \in BOOLEAN :
        Started(Workbook(<<MkRow(1, <<a, b, c>>),
                           MkRow(2, <<Some(T_k), Some(T_hi), Some(T_x)>>)>>),
                [DefaultOpts EXCEPT !.use_abbrev = abbrev])

\* --- shared-string references ---

\* a shared-string part of five items
FiveItems == << <<T_key>>, <<T_default>>, <<T_zh>>, <<T_hi>>, <<T_x>> >>

\* the value text of a shared-string cell: in range, too large, negative, and
\* no number at all
IndexTexts ==
    { <<"0">>, <<"2">>, <<"4">>, <<"5">>, <<"7">>, <<"-","1">>, <<"-","6">>, <<"x">> }

RefCell(col, n, text) == [r |-> <<col>> \o IntToStr(n), t |-> Some("s"), v |-> Some(text)]

RefRow(n, a, b, c) ==
    [r |-> IntToStr(n), cells |-> <<RefCell("A", n, a), RefCell("B", n, b), RefCell("C", n, c)>>]

InitShared ==
    \E a \in IndexTexts, b \in IndexTexts, c \in IndexTexts :
        Started(WorkbookWith(FiveItems,
                             <<RefRow(1, <<"0">>, <<"1">>, <<"2">>), RefRow(2, a, b, c)>>),
                DefaultOpts)

Init == InitDamaged \/ InitRows \/ InitLayouts \/ InitHeaders \/ InitShared

Spec == Init /\ [][Next]_vars

----------------------------------------------------------------------------
(* get_column_index on its own *)

ColumnRefs == UNION {[1 .. n -> Range(UpperLetters)] : n \in 1 .. MaxColLen}

InitColumn == \E ref \in ColumnRefs : Begin(Workbook(GoodSheet), DefaultOpts, "column", ref)

ColumnIndex ==
    /\ pc = "column"
    /\ pc' = "indexed"
    /\ col_index' = get_column_index(col_ref)
    /\ UNCHANGED <<file, opts, shared_strings, rows, headers, max_col, language_columns,
                   key_idx, default_idx, actual_end_row, result, pos, log, exc,
                   exit_status, report, output, col_ref>>

NextColumn == ColumnIndex

SpecColumn == InitColumn /\ [][NextColumn]_vars

----------------------------------------------------------------------------
(* Properties *)

Langs == DOMAIN result
KeysOf(lang) == DOMAIN result[lang]
Finished == pc \in {"written", "exited"}
Failed == pc = "exited" /\ exit_status = Some(1)

\* the row number, the cells and the trimmed key and default texts of the
\* i-th row element of the sheet, read off the sheet itself
RowNumOf(i) == PyInt(rows[i].r).val
CellsOf(i) == parse_row(rows[i], shared_strings, max_col).cells
TrimmedDefaultOf(i) == Strip(Get(CellsOf(i), default_idx[1]))

\* C1: every text key found under any language tag of the result is also
\* found under default_lang, after each processed row and in the file written.
C1_KeysUnderDefault ==
    /\ \A lang \in Langs : \A k \in KeysOf(lang) :
           opts.default_lang \in Langs /\ k \in KeysOf(opts.default_lang)
    /\ output # None =>
           \A lang \in DOMAIN output[1] : \A k \in DOMAIN output[1][lang] :
               opts.default_lang \in DOMAIN output[1]
               /\ k \in DOMAIN output[1][opts.default_lang]

\* a finished run whose result holds a key under a language other than
\* default_lang
C1_Witness ==
    /\ pc = "exited"
    /\ output # None
    /\ \E lang \in Langs : lang # opts.default_lang /\ KeysOf(lang) # {}

\* passes of the loop that met an empty trimmed default text
SkippedPasses == {i \in DOMAIN log : log[i].in_range /\ log[i].raised = ""
                                      /\ log[i].default_value = <<>>}

\* passes whose row carries a default text
DefaultPasses == {i \in DOMAIN log : log[i].in_range /\ log[i].raised = ""
                                      /\ log[i].default_value # <<>>}

\* C2 as stated: the trimmed key-column value of a skipped row is found under
\* no language tag, whatever the other rows hold.
C2_SkippedKeyNowhere ==
    \A i \in SkippedPasses : \A lang \in Langs : log[i].key_value \notin KeysOf(lang)

\* C2 amended: the trimmed key-column value of a skipped row is found under a
\* language tag only when it is the effective key of a row of the range that
\* carries a default text.
C2_SkippedKeyOnlyFromOthers ==
    \A i \in SkippedPasses : \A lang \in Langs :
        log[i].key_value \in KeysOf(lang) =>
            \E j \in DefaultPasses :
                TextId(log[j].key_value, log[j].default_value) = log[i].key_value

\* a skipped row whose key another row brought into the result
C2_Witness ==
    \E i \in SkippedPasses :
        /\ log[i].key_value # <<>>
        /\ \E lang \in Langs : log[i].key_value \in KeysOf(lang)

\* C3: when the loop is over, the rows that contributed are exactly the rows
\* numbered within [start, E] whose trimmed default text is not empty, E being
\* the end row given or else the number of the last row present in the sheet.
C3_ContributingRows ==
    (Finished /\ exc = "") =>
        {i \in DOMAIN log : log[i].kept}
        = {i \in DOMAIN rows :
              /\ opts.start_row <= RowNumOf(i)
              /\ RowNumOf(i) <= (IF opts.end_row # None THEN opts.end_row[1]
                                 ELSE RowNumOf(Len(rows)))
              /\ TrimmedDefaultOf(i) # <<>>}

\* what made the run fail, read off the input in the order the run meets it
Cause ==
    IF ~file.exists THEN "missing input file"
    ELSE IF ~file.is_zip THEN "unreadable archive"
    ELSE IF file.parts.sst.kind = "malformed" THEN "unparsable shared strings"
    ELSE IF file.parts.workbook.kind = "absent" THEN "missing workbook part"
    ELSE IF file.parts.workbook.kind = "malformed" THEN "unparsable workbook"
    ELSE IF file.parts.workbook.val = <<>> THEN "no sheets"
    ELSE IF Named(opts.sheet_name)
            /\ \A i \in DOMAIN file.parts.workbook.val :
                   file.parts.workbook.val[i].name # opts.sheet_name[1]
         THEN "unknown sheet name"
    ELSE IF file.parts.rels.kind = "absent" THEN "missing relationships part"
    ELSE IF file.parts.rels.kind = "malformed" THEN "unparsable relationships"
    ELSE IF \A i \in DOMAIN file.parts.rels.val :
                file.parts.rels.val[i].Id
                # TargetRid(file.parts.workbook.val,
                            TargetName(file.parts.workbook.val, opts.sheet_name))
         THEN "unresolvable relationship"
    ELSE IF \A path \in DOMAIN file.parts.sheets :
                Some(path) # FindRel(file.parts.rels.val,
                                     TargetRid(file.parts.workbook.val,
                                               TargetName(file.parts.workbook.val,
                                                          opts.sheet_name)))
         THEN "missing sheet part"
    ELSE IF \E path \in DOMAIN file.parts.sheets :
                file.parts.sheets[path].kind = "malformed"
         THEN "unparsable sheet"
    ELSE IF rows = <<>> THEN "empty sheet"
    ELSE IF headers # <<>> /\ \A n \in DOMAIN headers : headers[n] # opts.default_column
         THEN "absent default column"
    ELSE "other"

\* C4 as stated: a missing input file is a Not-Found error; an unreadable
\* archive, a missing workbook part, an empty or unparsable sheet, an absent
\* default column, an unknown sheet name and an unresolvable relationship are
\* reported in one line; only other failures are reported in full.
C4_FailureClasses ==
    Failed =>
        /\ Cause = "missing input file" => exc = "FileNotFoundError" /\ report = "line"
        /\ Cause \in {"unreadable archive", "missing workbook part", "empty sheet",
                      "unparsable sheet", "absent default column", "unknown sheet name",
                      "unresolvable relationship"} => report = "line"

\* C4 amended: a missing input file is a Not-Found error; a workbook without
\* sheets, an unknown sheet name, an unresolvable relationship, an empty sheet
\* and an absent default column are ValueErrors; these are reported in one
\* line.  An unreadable archive, a missing workbook, relationships or sheet
\* part and an unparsable part are reported in full, as unexpected.  Every
\* failure ends with status 1.
C4_FailureClassesOfTheCode ==
    /\ Failed =>
        /\ Cause = "missing input file" => exc = "FileNotFoundError" /\ report = "line"
        /\ Cause \in {"no sheets", "unknown sheet name", "unresolvable relationship",
                      "empty sheet", "absent default column"}
               => exc = "ValueError" /\ report = "line"
        /\ Cause \in {"unreadable archive", "missing workbook part",
                      "missing relationships part", "missing sheet part",
                      "unparsable shared strings", "unparsable workbook",
                      "unparsable relationships", "unparsable sheet"}
               => report = "traceback"
    /\ (pc = "exited" /\ exc # "") => exit_status = Some(1)

\* a run on a file that is no archive, reported in full
C4_Witness == Failed /\ Cause = "unreadable archive" /\ report = "traceback"

\* C5: the output file exists only once every row element has been taken and
\* nothing was raised; a run that raised has not touched it.
C5_OutputOnlyAfterExtraction ==
    /\ output # None => exc = "" /\ pos = Len(rows) /\ Finished
    /\ exc # "" => output = None

\* a run that failed on a header row without the default column
C5_Witness ==
    /\ Failed
    /\ exc = "ValueError"
    /\ Cause = "absent default column"
    /\ output = None

\* the inverse numeral: the letters of a zero-based column index
RECURSIVE LettersOf(_)
LettersOf(m) ==
    IF m = 0 THEN <<>>
    ELSE LettersOf((m - 1) \div 26) \o <<UpperLetters[((m - 1) % 26) + 1]>>

\* C6: get_column_index reads letters as a base-26 numeral without a zero
\* digit, less one: A is 0, Z is 25, AA is 26, AB is 27, and the letters are
\* recovered from the index.
C6_BijectiveNumeral ==
    pc = "indexed" =>
        /\ LettersOf(col_index + 1) = col_ref
        /\ col_ref = <<"A">> => col_index = 0
        /\ col_ref = <<"Z">> => col_index = 25
        /\ col_ref = <<"A", "A">> => col_index = 26
        /\ col_ref = <<"A", "B">> => col_index = 27

\* the index of AB has been computed
C6_Witness == pc = "indexed" /\ col_ref = <<"A", "B">> /\ col_index = 27

\* the shared-string cells of the i-th row element that hold a whole number
\* and lie within the columns parse_row keeps
NumberedCells(i) ==
    {n \in DOMAIN rows[i].cells :
        /\ rows[i].cells[n].t = Some("s")
        /\ rows[i].cells[n].v # None
        /\ PyInt(rows[i].cells[n].v[1]).exc = ""
        /\ get_column_index(AlphaOnly(rows[i].cells[n].r)) <= max_col}

\* C7: a shared-string cell with index i yields the i-th entry of the
\* shared-string sequence when i is a valid index; with any other index, too
\* large or negative, the cell is left out of the row mapping and nothing is
\* raised.
C7_SharedStringCells ==
    \A i \in DOMAIN log : log[i].in_range =>
        \A n \in NumberedCells(i) :
            IF 0 <= PyInt(rows[i].cells[n].v[1]).val
               /\ PyInt(rows[i].cells[n].v[1]).val < Len(shared_strings)
            THEN log[i].raised = "" =>
                   Get(log[i].cells, get_column_index(AlphaOnly(rows[i].cells[n].r)))
                   = shared_strings[PyInt(rows[i].cells[n].v[1]).val + 1]
            ELSE /\ get_column_index(AlphaOnly(rows[i].cells[n].r))
                        \notin DOMAIN log[i].cells
                 /\ log[i].raised # "IndexError"

\* C8: right after a contributing row, the default-language mapping maps the
\* row's effective key to the row's trimmed default text, whatever the header.
C8_DefaultEntry ==
    (log # <<>> /\ log[Len(log)].kept) =>
        /\ opts.default_lang \in Langs
        /\ Get(result[opts.default_lang], log[Len(log)].text_id)
               = log[Len(log)].default_value
        /\ log[Len(log)].text_id
               = (IF log[Len(log)].key_value # <<>> THEN log[Len(log)].key_value
                  ELSE log[Len(log)].default_value)

\* C9: no value stored in the result mapping is the empty text.
C9_NoEmptyValue == \A lang \in Langs : \A k \in KeysOf(lang) : result[lang][k] # <<>>

\* a row was kept although one of its language cells holds only whitespace,
\* and another row was skipped
C9_Witness ==
    /\ Langs # {}
    /\ \E i \in DOMAIN log :
           /\ log[i].kept
           /\ \E c \in DOMAIN language_columns :
                  c \in DOMAIN log[i].cells /\ Strip(log[i].cells[c]) = <<>>
    /\ SkippedPasses # {}

\* C10: a column is a language column exactly when its trimmed header text is
\* not empty and is neither the key-column name, the default-column name nor
\* an excluded name; a real header that begins with col_ is one.
C10_LanguageColumns ==
    headers # <<>> =>
        \A idx \in 0 .. (Len(headers) - 1) :
            idx \in DOMAIN language_columns
            <=> /\ Strip(Get(parse_row(rows[1], shared_strings, HeaderScanWidth).cells,
                             idx)) # <<>>
                /\ Strip(Get(parse_row(rows[1], shared_strings, HeaderScanWidth).cells,
                             idx))
                       \notin {opts.key_column, opts.default_column} \cup DefaultExclude

=============================================================================
